---- MODULE Spec2Model ----
(***************************************************************************)
(* Block-model viewer (POC_BM_3D): the column statistics, the per-instance *)
(* transform and colour buffers of Boxes, picking and click-to-copy, and   *)
(* the cross-section (clipping) widget with its helper plane.              *)
(*                                                                         *)
(* React renders, commits and runs the effects of one state change before  *)
(* the next event is handled, so every action below is one event handler   *)
(* together with the render and the effects it causes.  Promises and       *)
(* timers complete in later actions of their own.                          *)
(***************************************************************************)
EXTENDS Integers, Sequences, FiniteSets, TLC

VARIABLES
  statTable,        \* getMinMaxFromArrow input: the table (column name -> cells)
  statAttr,         \* getMinMaxFromArrow input: the attribute
  statResult,       \* what getMinMaxFromArrow returned (k = "none" before the call)
  statColors,       \* what the function getColorFromArrowTable returned yields per value
  parsedData,       \* App state parsedData: NoData or the rows of the dataset
  selectedProperty, \* MappingContext selectedProperty
  hideValue,        \* leva control "hide value"
  mapping,          \* leva controls of "Block Model" read by Boxes
  showTooltips,     \* Boxes prop showTooltips
  isLoading,        \* App state isLoading
  moveListener,     \* whether window has Boxes' mousemove listener
  hoveredBlock,     \* Boxes state hoveredBlock
  showCopyFeedback, \* Boxes state showCopyFeedback
  matrices,         \* instancedMesh instanceMatrix: slot i at index i + 1
  colorArray,       \* colour attribute: the channels of triple i at 3i + 1 .. 3i + 3
  pendingWrites,    \* number of clipboard.writeText promises not settled yet
  timers,           \* pending setTimeout(..., 800) callbacks
  controls,         \* leva controls of "Cross Section" (CrossSectionWidget)
  helper,           \* leva controls of "Cross Section"/"Helper Settings" (HelperPlane)
  clippingPlane,    \* Boxes state clippingPlane: NoPlane (null) or the components of
                    \* the module-level THREE.Plane it refers to
  calls,            \* the handleFile calls waiting on a loader's promise
  started,          \* how many files the user has given to handleFile
  lastFile,         \* the file the user gave last
  ebProps,          \* the fallback props of an outer and an inner ErrorBoundary
  outerEB,          \* state of the outer ErrorBoundary
  innerEB,          \* state of the inner ErrorBoundary (a descendant of the outer)
  ebLog,            \* what the boundaries' componentDidCatch logged
  givenFiles,       \* the files handleFile was called with, in order
  event             \* the last event handled and what its handler did

statVars == <<statTable, statAttr, statResult, statColors>>
dataVars == <<parsedData, selectedProperty, hideValue, mapping, showTooltips, isLoading>>
boxVars == <<moveListener, hoveredBlock, showCopyFeedback, matrices, colorArray>>
copyVars == <<pendingWrites, timers>>
clipVars == <<controls, helper, clippingPlane>>
loadVars == <<calls, started, lastFile, givenFiles>>
ebVars == <<ebProps, outerEB, innerEB, ebLog>>
vars == <<statVars, dataVars, boxVars, copyVars, clipVars, loadVars, ebVars, event>>

----------------------------------------------------------------------------
(* Bounds of the model. *)

\* longest column handed to getMinMaxFromArrow
MaxLen == 3
\* largest cell value of such a column
MaxVal == 2
\* most rows of a dataset
MaxRows == 2
\* most clipboard writes and acknowledgment timers in flight
MaxInFlight == 2
\* how far outside [min - 1, max + 1] the unbounded z slider is moved
ZSlack == 1
\* most files given to handleFile in one behaviour
MaxLoads == 2

\* the largest z exageration chosen
MaxZScale == 2

----------------------------------------------------------------------------
(* JavaScript numbers as far as the statistics need them: a rational n/d,  *)
(* NaN, undefined or null.                                                 *)

NaN == [k |-> "nan", n |-> 0, d |-> 1]
Undefined == [k |-> "undefined", n |-> 0, d |-> 1]
Null == [k |-> "null", n |-> 0, d |-> 1]
Num(n) == [k |-> "num", n |-> n, d |-> 1]

\* n / d of two integers: 0/0 is NaN
Div(n, d) == IF d = 0 THEN NaN ELSE [k |-> "num", n |-> n, d |-> d]

IsNum(a) == a.k = "num"
\* _.isNil
IsNil(a) == a.k \in {"undefined", "null"}
NumEq(a, b) == IsNum(a) /\ IsNum(b) /\ a.n * b.d = b.n * a.d
IsZero(a) == NumEq(a, Num(0))

\* (a + b) / 2 where a, b are array reads that may be undefined
HalfSum(a, b) ==
  IF IsNum(a) /\ IsNum(b) THEN Div(a.n + b.n, 2) ELSE NaN

\* Math.sqrt, kept symbolic: k = "sqrt" of the rational n/d
Sqrt(a) == IF IsNum(a) THEN [k |-> "sqrt", n |-> a.n, d |-> a.d] ELSE NaN

----------------------------------------------------------------------------
(* Column statistics: getMinMaxFromArrow.                                  *)

\* A cell of an Arrow column: valid or null, and the number its slot of the
\* values buffer holds (toArray hands out the buffer, null slots included).
Cells == [valid : BOOLEAN, v : 0..MaxVal]

RECURSIVE SeqsUpTo(_, _)
SeqsUpTo(S, n) ==
  IF n = 0 THEN {<<>>}
  ELSE LET shorter == SeqsUpTo(S, n - 1)
       IN shorter \cup {Append(s, e) : s \in {t \in shorter : Len(t) = n - 1}, e \in S}

\* the table is absent (null)
NoTable == [none |-> <<>>]

\* table.getChild(attribute): the column, or NoColumn
NoColumn == <<[valid |-> FALSE, v |-> -1]>>
getChild(table, attribute) ==
  IF attribute \in DOMAIN table THEN table[attribute] ELSE NoColumn

\* columnData.toArray()
toArray(column) == [i \in 1..Len(column) |-> column[i].v]

RECURSIVE SumSeq(_)
SumSeq(s) == IF s = <<>> THEN 0 ELSE Head(s) + SumSeq(Tail(s))

\* _.min / _.max of an array: undefined when it is empty
MinOf(a) ==
  IF a = <<>> THEN Undefined
  ELSE Num(CHOOSE m \in {a[i] : i \in 1..Len(a)} : \A j \in 1..Len(a) : m <= a[j])
MaxOf(a) ==
  IF a = <<>> THEN Undefined
  ELSE Num(CHOOSE m \in {a[i] : i \in 1..Len(a)} : \A j \in 1..Len(a) : m >= a[j])

\* [...numericArray].sort((a, b) => a - b)
RECURSIVE Insert(_, _)
Insert(x, s) ==
  IF s = <<>> THEN <<x>>
  ELSE IF x <= Head(s) THEN <<x>> \o s
  ELSE <<Head(s)>> \o Insert(x, Tail(s))
\* the array left in the order of the column
SortAscMut(s) == s
RECURSIVE SortAsc(_)
SortAsc(s) == IF s = <<>> THEN <<>> ELSE Insert(Head(s), SortAsc(Tail(s)))

\* sortedArray[i] with a 0-based index: undefined out of range
At(a, i) == IF i >= 0 /\ i < Len(a) THEN Num(a[i + 1]) ELSE Undefined

EmptyStats ==
  [min |-> Null, max |-> Null, range |-> Null, count |-> 0, sum |-> Num(0),
   mean |-> Num(0), median |-> Num(0), stdDev |-> Num(0)]

StatsOfArray(floatArray) ==
  LET min == MinOf(floatArray)
      max == MaxOf(floatArray)
      range == IF IsNil(max) \/ IsNil(min) THEN Null ELSE Num(max.n - min.n)
      count == Len(floatArray)
      sum == SumSeq(floatArray)
      mean == Div(sum, count)
      sortedArray == SortAsc(floatArray)
      midpoint == count \div 2
      median == IF count % 2 = 0
                THEN HalfSum(At(sortedArray, midpoint - 1), At(sortedArray, midpoint))
                ELSE At(sortedArray, midpoint)
      \* (value - mean)^2 = (value * count - sum)^2 / count^2
      squareDiffs == [i \in 1..count |->
                        (floatArray[i] * count - sum) * (floatArray[i] * count - sum)]
      avgSquareDiff == Div(SumSeq(squareDiffs), count * count * count)
      stdDev == Sqrt(avgSquareDiff)
  IN [min |-> min, max |-> max, range |-> range, count |-> count, sum |-> Num(sum),
      mean |-> mean, median |-> median, stdDev |-> stdDev]

getMinMaxFromArrow(table, attribute) ==
  IF table # NoTable /\ getChild(table, attribute) # NoColumn
  THEN StatsOfArray(toArray(getChild(table, attribute)))
  ELSE EmptyStats

----------------------------------------------------------------------------
(* The dataset and the controls of MappingWidget.                          *)

\* Rows of a dataset.  Number(row[column]) is the integer held here.
RowA == [x |-> 0, y |-> 0, z |-> 0, v |-> 10, dim_x |-> 2, dim_y |-> 3, dim_z |-> 4]
RowB == [x |-> 5, y |-> 0, z |-> 0, v |-> 20, dim_x |-> 2, dim_y |-> 3, dim_z |-> 4]
RowC == [x |-> 1, y |-> 2, z |-> 0, v |-> 10, dim_x |-> 1, dim_y |-> 1, dim_z |-> 2]
RowPool == {RowA, RowB, RowC}
Datasets == SeqsUpTo(RowPool, MaxRows)

\* parsedData === null
NoData == [loaded |-> FALSE, rows |-> <<>>]
Loaded(rows) == [loaded |-> TRUE, rows |-> rows]

\* Number(hideValue) of the hide values the model enters
HideNumber == [h \in {"10", "20"} |-> IF h = "10" THEN 10 ELSE 20]

\* the callback of data.filter in MappingWidget
KeepRow(item, sel, hide) ==
  LET value == item[sel]
  IN IF hide = "" THEN TRUE
     ELSE IF hide = "NaN" THEN TRUE   \* no row of RowPool holds "nan" or "NaN"
     ELSE value # HideNumber[hide]

RECURSIVE FilterRows(_, _, _)
FilterRows(rows, sel, hide) ==
  IF rows = <<>> THEN <<>>
  ELSE IF KeepRow(Head(rows), sel, hide)
       THEN <<Head(rows)>> \o FilterRows(Tail(rows), sel, hide)
       ELSE FilterRows(Tail(rows), sel, hide)

\* boxesData of MappingWidget: the data prop of Boxes
BoxesData(pd, sel, hide) ==
  IF sel # "" THEN FilterRows(pd.rows, sel, hide) ELSE pd.rows

\* tableFromJSON(data): one column per field, none for an empty array
Fields == {"x", "y", "z", "v", "dim_x", "dim_y", "dim_z"}
ArrowOf(rows) ==
  IF rows = <<>> THEN [c \in {} |-> <<>>]
  ELSE [c \in DOMAIN rows[1] |->
          [i \in 1..Len(rows) |-> [valid |-> TRUE, v |-> rows[i][c]]]]

\* Scene renders MappingWidget when parsedData?.data, and MappingWidget
\* renders Boxes when x, y and z are all non-empty
BoxesRenderedMut(pd, map) ==
  pd.loaded /\ (map.x # "" \/ map.y # "" \/ map.z # "")
BoxesRendered(pd, map) ==
  pd.loaded /\ map.x # "" /\ map.y # "" /\ map.z # ""

\* findPopularHeader(popularArray, headers): the header that is a popular
\* name, or "" (no dataset of the model has two of them)
findPopularHeader(popularArray, headers) ==
  IF \E h \in headers : h \in popularArray
  THEN CHOOSE h \in headers : h \in popularArray
  ELSE ""

mostCommonX == {"x", "xcentre"}
mostCommonY == {"y", "ycentre"}
mostCommonZ == {"z", "zcentre"}
mostCommonDimX == {"dim_x", "dimx", "dimension_x", "block_dim_x", "sizex", "size_x"}
mostCommonDimY == {"dim_y", "dimy", "dimension_y", "block_dim_y", "sizey", "size_y"}
mostCommonDimZ == {"dim_z", "dimz", "dimension_z", "block_dim_z", "sizez", "size_z"}

\* the values useControls("Block Model") registers for a dataset's headers
RegisterMapping(headers) ==
  [x |-> findPopularHeader(mostCommonX, headers),
   y |-> findPopularHeader(mostCommonY, headers),
   z |-> findPopularHeader(mostCommonZ, headers),
   use_dimension_columns |-> TRUE,
   dim_x |-> findPopularHeader(mostCommonDimX, headers),
   dim_y |-> findPopularHeader(mostCommonDimY, headers),
   dim_z |-> findPopularHeader(mostCommonDimZ, headers),
   block_dimension |-> [x |-> 5, y |-> 5, z |-> 5], zScale |-> 1,
   showEdges |-> FALSE]

InitMapping == RegisterMapping(Fields)

\* Rows whose x coordinate is in a column no popular name matches
GateRowA == [east |-> 0, y |-> 0, z |-> 0, v |-> 10, dim_x |-> 2, dim_y |-> 3, dim_z |-> 4]
GateRowB == [east |-> 5, y |-> 0, z |-> 0, v |-> 20, dim_x |-> 2, dim_y |-> 3, dim_z |-> 4]
GateFields == {"east", "y", "z", "v", "dim_x", "dim_y", "dim_z"}
GateDatasets == SeqsUpTo({GateRowA, GateRowB}, MaxRows)

----------------------------------------------------------------------------
(* The transform buffer: the second useLayoutEffect of Boxes.              *)

\* a slot of instanceMatrix no setMatrixAt has written
Unwritten == [set |-> FALSE, pos |-> <<0, 0, 0>>, scale |-> <<0, 0, 0>>]

\* new InstancedMesh(, , n + 1): the args of <instancedMesh>
FreshMesh(n) == [i \in 1..(n + 1) |-> Unwritten]

\* NaN as a coordinate: an integer no arithmetic on the model's rows reaches
NaNCoord == 1000000

\* Number(row[col]): NaN when the row has no such column (col may be "")
NumberAt(row, col) == IF col \in DOMAIN row THEN row[col] ELSE NaNCoord

\* a + b, a - b and -a of numbers that may be NaN
Plus(a, b) == IF a = NaNCoord \/ b = NaNCoord THEN NaNCoord ELSE a + b
Minus(a, b) == IF a = NaNCoord \/ b = NaNCoord THEN NaNCoord ELSE a - b
Neg(a) == IF a = NaNCoord THEN NaNCoord ELSE -a

\* xOrigin, yOrigin, zOrigin
OriginMut(rows, col) == NumberAt(rows[1], col)
Origin(rows, col) == Plus(NumberAt(rows[1], col), 1)

\* obj.position.set(x, y, z): no remapping of the axes
InstancePositionMut(rows, map, i) ==
  LET x == Minus(NumberAt(rows[i], map.x), Origin(rows, map.x))
      y == Minus(NumberAt(rows[i], map.y), Origin(rows, map.y))
      z == Minus(NumberAt(rows[i], map.z), Origin(rows, map.z))
  IN <<x, y, z>>

\* obj.position.set(x, z, -y) for row i (1-based)
InstancePosition(rows, map, i) ==
  LET x == Minus(NumberAt(rows[i], map.x), Origin(rows, map.x))
      y == Minus(NumberAt(rows[i], map.y), Origin(rows, map.y))
      z == Minus(NumberAt(rows[i], map.z), Origin(rows, map.z))
  IN <<x, z, Neg(y)>>

\* obj.scale.set(...) with the up axis multiplied by zScale
InstanceScaleMut(rows, map, i) ==
  IF map.use_dimension_columns
  THEN <<NumberAt(rows[i], map.dim_x), NumberAt(rows[i], map.dim_z) * map.zScale,
         NumberAt(rows[i], map.dim_y)>>
  ELSE <<map.block_dimension.x, map.block_dimension.z * map.zScale,
         map.block_dimension.y>>

\* obj.scale.set(...)
InstanceScale(rows, map, i) ==
  IF map.use_dimension_columns
  THEN <<NumberAt(rows[i], map.dim_x), NumberAt(rows[i], map.dim_z),
         NumberAt(rows[i], map.dim_y)>>
  ELSE <<map.block_dimension.x, map.block_dimension.z, map.block_dimension.y>>

\* the effect body: returns at once on no rows, else setMatrixAt(i + 1, ...)
TransformEffect(mesh, rows, map) ==
  IF Len(rows) = 0 THEN mesh
  ELSE [k \in 1..Len(mesh) |->
          IF k >= 2 /\ k - 1 <= Len(rows)
          THEN [set |-> TRUE, pos |-> InstancePosition(rows, map, k - 1),
                scale |-> InstanceScale(rows, map, k - 1)]
          ELSE mesh[k]]

\* the effect's dependency list [data, mapping]
TransformDepsChangedMut(oldRows, newRows, oldMap, newMap) == oldMap # newMap
TransformDepsChanged(oldRows, newRows, oldMap, newMap) ==
  oldRows # newRows \/ oldMap # newMap

\* instanceMatrix after a render of a mounted Boxes: the mesh is rebuilt when
\* its args (data.length + 1) change, then the effect runs if its deps changed
MatricesAfter(mesh, oldRows, newRows, oldMap, newMap) ==
  LET m == IF Len(mesh) # Len(newRows) + 1 THEN FreshMesh(Len(newRows)) ELSE mesh
  IN IF TransformDepsChanged(oldRows, newRows, oldMap, newMap)
     THEN TransformEffect(m, newRows, newMap)
     ELSE m

----------------------------------------------------------------------------
(* The colour buffer: useColorManagement and getColorFromArrowTable.       *)

DEFAULT_COLOR == [k |-> "hex", hex |-> "#FDE725", n |-> 0, d |-> 1]
defaultColor == [k |-> "hex", hex |-> "#CCCCCC", n |-> 0, d |-> 1]

\* chroma.scale(colorscale).domain([min, max])(val): the place of val in the
\* domain, clamped to it, as the fraction n/d
ScaleColor(val, min, max) ==
  LET c == IF val < min THEN min ELSE IF val > max THEN max ELSE val
  IN [k |-> "scale", hex |-> "", n |-> c - min, d |-> max - min]

\* getColorFromArrowTable(...)(val); attribute "" stands for undefined
getColorMut(table, attribute, val) ==
  IF attribute # ""
  THEN LET st == getMinMaxFromArrow(table, attribute)
       IN ScaleColor(val, st.min.n, st.max.n)
  ELSE DEFAULT_COLOR
getColor(table, attribute, val) ==
  IF attribute # ""
  THEN LET st == getMinMaxFromArrow(table, attribute)
       IN IF ~IsNil(st.min) /\ ~IsNil(st.max)
          THEN ScaleColor(val, st.min.n, st.max.n)
          ELSE DEFAULT_COLOR
  ELSE DEFAULT_COLOR

\* color.set(c).convertSRGBToLinear().toArray(): the r, g and b of colour c
ColorToArray(c) ==
  <<[of |-> c, channel |-> "r"], [of |-> c, channel |-> "g"],
    [of |-> c, channel |-> "b"]>>

\* Array.prototype.flat of an array of triples
RECURSIVE Flat(_)
Flat(triples) ==
  IF triples = <<>> THEN <<>> ELSE Head(triples) \o Flat(Tail(triples))

\* colorArray: Float32Array.from of data.length + 1 triples, flattened;
\* triple 0 is the default gray
ColorArrayOfMut(rows, table, property) ==
  Flat([i \in 1..(Len(rows) + 1) |->
     ColorToArray(IF i = 1 THEN DEFAULT_COLOR
                  ELSE getColor(table, property,
                                IF property = "" THEN 0 ELSE rows[i - 1][property]))])
ColorArrayOf(rows, table, property) ==
  Flat([i \in 1..(Len(rows) + 1) |->
     ColorToArray(IF i = 1 THEN defaultColor
                  ELSE getColor(table, property,
                                IF property = "" THEN 0 ELSE rows[i - 1][property]))])

----------------------------------------------------------------------------
(* The cross-section widget and the helper plane.                          *)

\* safeRound(data?.[0]?.[mapping[axis]])
StartOf(rows, col) ==
  IF rows = <<>> \/ col \notin DOMAIN rows[1] THEN 0 ELSE rows[1][col]

\* Number(max) - Number(min) of a coordinate column of the arrow table
Extent(table, col) ==
  LET st == getMinMaxFromArrow(table, col)
      lo == IF IsNum(st.min) THEN st.min.n ELSE 0
      hi == IF IsNum(st.max) THEN st.max.n ELSE 0
  IN IF hi >= lo THEN hi - lo ELSE lo - hi

\* the controls before CrossSectionWidget first registers them with leva
NoControls ==
  [init |-> FALSE, active |-> FALSE, direction |-> "x", x |-> 0, y |-> 0, z |-> 0]

\* useControls("Cross Section", {...}): leva takes the schema's values when
\* the controls are first registered and keeps its own values afterwards
CrossSectionControls(ctrl, rows, map) ==
  IF ctrl.init THEN ctrl
  ELSE [init |-> TRUE, active |-> FALSE, direction |-> "x",
        x |-> StartOf(rows, map.x), y |-> StartOf(rows, map.y),
        z |-> StartOf(rows, map.z)]

\* v, with no fallback for 0
OrHalfMut(v) == Num(v)

\* v || 0.5
OrHalf(v) == IF v = 0 THEN Div(1, 2) ELSE Num(v)

\* getClippingPlane(): plane.setComponents(x, y, z, w)
getClippingPlane(ctrl, rows, map) ==
  CASE ctrl.direction = "x" ->
         [x |-> OrHalf(StartOf(rows, map.x) - ctrl.x + 1), y |-> Num(0),
          z |-> Num(0), w |-> 1]
    [] ctrl.direction = "y" ->
         [x |-> Num(0), y |-> Num(0),
          z |-> OrHalf(ctrl.y - StartOf(rows, map.y) - 1), w |-> 1]
    [] ctrl.direction = "z" ->
         [x |-> Num(0), y |-> OrHalf(ctrl.z - StartOf(rows, map.z) - 1),
          z |-> Num(0), w |-> 1]
    [] OTHER -> [x |-> Num(1), y |-> Num(0), z |-> Num(0), w |-> 1]

\* clippingPlane === null
NoPlane == [none |-> TRUE]

\* the effect of CrossSectionWidget: onClipChange(active ? getClippingPlane() : null).
\* getClippingPlane() rewrites the one module-level plane and hands it out;
\* nothing else writes it, so the state keeps its components only while Boxes
\* refers to it.
ClipEffectMut(ctrl, rows, map) == getClippingPlane(ctrl, rows, map)
ClipEffect(ctrl, rows, map) ==
  IF ctrl.active THEN getClippingPlane(ctrl, rows, map) ELSE NoPlane

\* clippingPlanes={clippingPlane ? [clippingPlane] : undefined}
ClippingPlanes(cp) == IF cp # NoPlane THEN <<cp>> ELSE <<>>

\* getHelperPlaneProps(): width, height, position and, but for y, rotation
\* (angles about the render axes x, y, z)
getHelperPlaneProps(ctrl, rows, map, table) ==
  CASE ctrl.direction = "x" ->
         [width |-> Extent(table, map.y), height |-> Extent(table, map.z),
          position |-> <<ctrl.x - StartOf(rows, map.x) - 1, 0, 0>>,
          rotation |-> <<"0", "PI/2", "0">>]
    [] ctrl.direction = "y" ->
         [width |-> Extent(table, map.x), height |-> Extent(table, map.z),
          position |-> <<0, 0, StartOf(rows, map.y) - ctrl.y + 1>>]
    [] OTHER ->
         [width |-> Extent(table, map.x), height |-> Extent(table, map.y),
          position |-> <<0, StartOf(rows, map.z) - ctrl.z + 1, 0>>,
          rotation |-> <<"PI/2", "0", "0">>]

\* the helper's controls before HelperPlane first registers them
NoHelper == [init |-> FALSE, active |-> FALSE, width |-> 0, height |-> 0]

\* props.width || 5000, props.height || 1000
OrDefault(v, dflt) == IF v = 0 THEN dflt ELSE v

\* useControls("Cross Section", {"Helper Settings": folder({...})}) of
\* HelperPlane, rendered while controls.active
HelperControls(h, ctrl, props) ==
  IF h.init \/ ~ctrl.active THEN h
  ELSE [init |-> TRUE, active |-> TRUE, width |-> OrDefault(props.width, 5000),
        height |-> OrDefault(props.height, 1000)]

\* HelperPlane returns null
NoMesh == [none |-> TRUE]

\* what HelperPlane returns, without the check of its active control
HelperPlaneMut(h, props) ==
  [position |-> IF "position" \in DOMAIN props THEN props.position
                ELSE <<0, 0, 0>>,
   rotation |-> IF "rotation" \in DOMAIN props THEN props.rotation
                ELSE <<"0", "0", "0">>,
   scale |-> <<h.width, h.height, 1>>]

\* what HelperPlane returns for the values h of its controls: null, or a mesh
\* with position || [0, 0, 0], rotation || [0, 0, 0], scale [width, height, 1]
HelperPlane(h, props) ==
  IF ~h.active THEN NoMesh
  ELSE [position |-> IF "position" \in DOMAIN props THEN props.position
                     ELSE <<0, 0, 0>>,
        rotation |-> IF "rotation" \in DOMAIN props THEN props.rotation
                     ELSE <<"0", "0", "0">>,
        scale |-> <<h.width, h.height, 1>>]

\* what CrossSectionWidget renders: {controls.active && <HelperPlane .../>}
WidgetOutput(ctrl, h, props) ==
  IF ctrl.active THEN HelperPlane(h, props) ELSE NoMesh

\* the helper plane's mesh is rendered: scale [width, height, 1]
HelperShown(pd, map, ctrl, h) ==
  BoxesRendered(pd, map) /\ ctrl.active /\ h.init /\ h.active

----------------------------------------------------------------------------
(* Picking: hover state, listeners, click-to-copy.                         *)

\* instanceId null / intersects[0].instanceId undefined
NullId == -1

\* the initial and the cleared hoveredBlock; data is <<>> (null) or <<row>>
NoHover ==
  [data |-> <<>>, position |-> <<0, 0, 0>>, instanceId |-> NullId,
   matrix |-> Unwritten]

\* raycaster.intersectObject(ref.current): no intersection, or the nearest one
NoHit == [any |-> FALSE, instanceId |-> NullId, point |-> <<0, 0, 0>>]
HitPoints == {<<1, 2, 3>>, <<4, 0, 1>>}
RayHits(n) ==
  {NoHit} \cup [any : {TRUE}, instanceId : {NullId} \cup 0..(n + 1), point : HitPoints]

\* the part of handlePointerMove after the ray-cast
ResolveHitMut(hit, rows, mesh) ==
  IF hit.any /\ hit.instanceId # NullId /\ hit.instanceId >= 0
     /\ hit.instanceId <= Len(rows)
  THEN [data |-> IF hit.instanceId = 0 THEN <<rows[1]>> ELSE <<rows[hit.instanceId]>>,
        position |-> hit.point, instanceId |-> hit.instanceId,
        matrix |-> mesh[hit.instanceId + 1]]
  ELSE NoHover
ResolveHit(hit, rows, mesh) ==
  IF hit.any /\ hit.instanceId # NullId /\ hit.instanceId > 0
     /\ hit.instanceId <= Len(rows)
  THEN [data |-> <<rows[hit.instanceId]>>, position |-> hit.point,
        instanceId |-> hit.instanceId, matrix |-> mesh[hit.instanceId + 1]]
  ELSE NoHover

\* getBoundingClientRect() of the Leva panel (on the right, below the top
\* panel) and of the element of class top-panel (across the top)
PanelRect == [left |-> 2, right |-> 3, top |-> 1, bottom |-> 2]
TopRect == [left |-> 0, right |-> 3, top |-> 0, bottom |-> 0]

\* clientX, clientY of the events: in the top panel, on the left edge of the
\* Leva panel, and two over the canvas
NoPointer == [clientX |-> -1, clientY |-> -1]
Pointers ==
  {[clientX |-> 1, clientY |-> 0], [clientX |-> 2, clientY |-> 1],
   [clientX |-> 1, clientY |-> 1], [clientX |-> 0, clientY |-> 2]}

InRect(e, rect) ==
  /\ e.clientX >= rect.left /\ e.clientX <= rect.right
  /\ e.clientY >= rect.top /\ e.clientY <= rect.bottom

\* isMouseOverUI that looks at the Leva panel only
isMouseOverUIMut(e) == InRect(e, PanelRect)

\* isMouseOverUI(event)
isMouseOverUI(e) == InRect(e, PanelRect) \/ InRect(e, TopRect)

\* whether handlePointerMove gets as far as the ray-cast (ref.current is set
\* while Boxes is mounted)
ReachesRayCast(overUI, rows, tips) == ~overUI /\ Len(rows) # 0 /\ tips

\* the first useLayoutEffect of Boxes: mousemove is listened to if showTooltips
ListenerEffect(tips) == tips

\* JSON.stringify(blockData)
Stringify(blockData) == [json |-> blockData]

\* the writeText calls of one click: the mesh's onClick (when the click hits
\* the mesh), then window's click listener
MeshClickWrites(hov, meshHit) ==
  IF meshHit /\ hov.data # <<>> THEN <<Stringify(hov.data[1])>> ELSE <<>>
WindowClickWrites(hov, overUI) ==
  IF ~overUI /\ hov.instanceId # NullId /\ hov.data # <<>>
  THEN <<Stringify(hov.data[1])>> ELSE <<>>

NoEvent ==
  [type |-> "none", at |-> NoPointer, overUI |-> FALSE, rayCast |-> FALSE, hit |-> NoHit,
   meshHit |-> FALSE, writes |-> <<>>, throws |-> FALSE]
Other(type) == [NoEvent EXCEPT !.type = type]

----------------------------------------------------------------------------
(* One render of the tree below App with the given state and controls,     *)
(* with its commit and its effects.                                        *)

Render(pd, sel, hide, map, tips) ==
  LET oldRows == BoxesData(parsedData, selectedProperty, hideValue)
      newRows == BoxesData(pd, sel, hide)
      table == ArrowOf(pd.rows)
      was == BoxesRendered(parsedData, mapping)
      now == BoxesRendered(pd, map)
      ctrl == CrossSectionControls(controls, newRows, map)
  IN /\ parsedData' = pd
     /\ selectedProperty' = sel
     /\ hideValue' = hide
     /\ mapping' = map
     /\ showTooltips' = tips
     /\ IF ~now
        THEN \* Boxes is unmounted: its state, buffers and listeners are gone,
             \* and what its promises and timers set later is set on nothing
             /\ matrices' = <<>>
             /\ colorArray' = <<>>
             /\ moveListener' = FALSE
             /\ hoveredBlock' = NoHover
             /\ showCopyFeedback' = FALSE
             /\ pendingWrites' = 0
             /\ timers' = 0
             /\ clippingPlane' = NoPlane
             /\ UNCHANGED <<controls, helper>>
        ELSE /\ matrices' =
                  IF was
                  THEN MatricesAfter(matrices, oldRows, newRows, mapping, map)
                  ELSE TransformEffect(FreshMesh(Len(newRows)), newRows, map)
             /\ colorArray' = ColorArrayOf(newRows, table, sel)
             /\ moveListener' = ListenerEffect(tips)
             /\ hoveredBlock' = IF was THEN hoveredBlock ELSE NoHover
             /\ showCopyFeedback' = IF was THEN showCopyFeedback ELSE FALSE
             /\ UNCHANGED <<pendingWrites, timers>>
             /\ controls' = ctrl
             /\ helper' = HelperControls(helper, ctrl,
                                         getHelperPlaneProps(ctrl, newRows, map, table))
             \* the effect of CrossSectionWidget runs on mount; none of its
             \* dependencies changes in a render caused by data or mapping
             /\ clippingPlane' =
                  IF was THEN clippingPlane ELSE ClipEffect(ctrl, newRows, map)

----------------------------------------------------------------------------
(* Loading a file: App.handleFile and handleParsedData.                    *)

\* handleFile up to its first await: setLoading(true); setParsedData(null)
HandleFile ==
  /\ isLoading' = TRUE
  /\ Render(NoData, selectedProperty, hideValue, mapping, showTooltips)
  /\ event' = Other("file")
  /\ UNCHANGED <<statVars, loadVars, ebVars, loadVars>>

\* the parse succeeded: handleParsedData(rows) and setLoading(false); an
\* empty array is refused by handleFile ("Can't load any data.")
HandleParsedData(rows) ==
  /\ isLoading
  /\ rows # <<>>
  /\ isLoading' = FALSE
  /\ Render(Loaded(rows), selectedProperty, hideValue, mapping, showTooltips)
  /\ event' = Other("parsed")
  /\ UNCHANGED <<statVars, loadVars, ebVars, loadVars>>

\* the parse failed: the catch and finally of handleFile
LoadFails ==
  /\ isLoading
  /\ isLoading' = FALSE
  /\ Render(parsedData, selectedProperty, hideValue, mapping, showTooltips)
  /\ event' = Other("failed")
  /\ UNCHANGED <<statVars, loadVars, ebVars, loadVars>>

----------------------------------------------------------------------------
(* handleFile step by step, for a file of each format.                     *)

\* A file: its format, the rows its CSV content parses to (none: an empty
\* table), whether its loader's promise resolves, and for a ZIP whether it
\* holds a .csv entry.
Formats == {"csv", "zip", "arrow"}
FileRows == {<<>>, <<RowA>>, <<RowA, RowB>>}
Files ==
  {f \in [fmt : Formats, rows : FileRows, parses : BOOLEAN, hasCsv : BOOLEAN] :
     f.fmt # "zip" => f.hasCsv}
NoFile == [fmt |-> "none", rows |-> <<>>, parses |-> FALSE, hasCsv |-> FALSE]

\* handleFile(file) of a File up to its await: setLoading(true);
\* setParsedData(null); then getDataFromCSV, getFilesFromZIP or
\* getDataFromArrow by the file's type
StartLoad(f) ==
  /\ started < MaxLoads
  /\ started' = started + 1
  /\ lastFile' = f
  /\ givenFiles' = Append(givenFiles, f)
  /\ calls' = Append(calls, [file |-> f, stage |-> f.fmt])
  /\ isLoading' = TRUE
  /\ Render(NoData, selectedProperty, hideValue, mapping, showTooltips)
  /\ event' = Other("file")
  /\ UNCHANGED <<statVars, ebVars>>

\* handleDrop: exactly one dropped file is given to handleFile; more than one
\* is an error on the console, none is a log of the dropped text
HandleDrop(files) ==
  IF Len(files) = 1 THEN StartLoad(files[1])
  ELSE /\ event' = Other("drop")
       /\ UNCHANGED <<statVars, loadVars, ebVars, dataVars, boxVars, copyVars,
                      clipVars>>

\* calls without its i-th element
Without(s, i) == SubSeq(s, 1, i - 1) \o SubSeq(s, i + 1, Len(s))

\* handleFile(array): parsedData after setParsedData(null) and, for a
\* non-empty array, handleParsedData(array); an empty one throws, caught
AfterArray(rows) == IF rows # <<>> THEN Loaded(rows) ELSE NoData

\* what the call does with a resolved getDataFromArrow: it throws "The Arrow
\* loader is still under development." before handleFile(data)
ArrowResult(f, pd) == pd

\* The promise the i-th call waits on settles and the call runs to its end;
\* the state updates of one continuation are rendered together.
LoaderSettles(i) ==
  LET c == calls[i]
      f == c.file
      rest == Without(calls, i)
  IN /\ isLoading' = FALSE   \* finally { setLoading(false) } runs last
     /\ event' = Other("settled")
     /\ UNCHANGED <<statVars, ebVars, started, lastFile, givenFiles>>
     /\ CASE c.stage = "csv" ->
               \* handleFile(data), without await, runs to its end at once
               /\ calls' = rest
               /\ Render(IF f.parses THEN AfterArray(f.rows) ELSE parsedData,
                         selectedProperty, hideValue, mapping, showTooltips)
          [] c.stage = "zip" ->
               IF f.parses /\ f.hasCsv
               THEN \* handleFile(data[csvKey]): an ArrayBuffer, so the call
                    \* starts getDataFromCSV and returns at its await
                    /\ calls' = Append(rest, [file |-> f, stage |-> "csv"])
                    /\ Render(NoData, selectedProperty, hideValue, mapping,
                              showTooltips)
               ELSE /\ calls' = rest
                    /\ Render(parsedData, selectedProperty, hideValue, mapping,
                              showTooltips)
          [] OTHER ->
               /\ calls' = rest
               /\ Render(ArrowResult(f, parsedData), selectedProperty, hideValue,
                         mapping, showTooltips)

Settle == \E i \in 1..Len(calls) : LoaderSettles(i)

----------------------------------------------------------------------------
(* The controls of MappingWidget and Scene (shown while data is loaded).   *)

SelectProperty(p) ==
  /\ parsedData.loaded
  /\ p # selectedProperty
  /\ Render(parsedData, p, hideValue, mapping, showTooltips)
  /\ event' = Other("property")
  /\ UNCHANGED <<statVars, loadVars, ebVars, isLoading>>

SetHideValue(h) ==
  /\ parsedData.loaded
  /\ h # hideValue
  /\ Render(parsedData, selectedProperty, h, mapping, showTooltips)
  /\ event' = Other("hideValue")
  /\ UNCHANGED <<statVars, loadVars, ebVars, isLoading>>

SetCoordColumn(c) ==
  /\ parsedData.loaded
  /\ c # mapping.x
  /\ Render(parsedData, selectedProperty, hideValue, [mapping EXCEPT !.x = c],
            showTooltips)
  /\ event' = Other("mapping")
  /\ UNCHANGED <<statVars, loadVars, ebVars, isLoading>>

ToggleUseDimensionColumns ==
  /\ parsedData.loaded
  /\ Render(parsedData, selectedProperty, hideValue,
            [mapping EXCEPT !.use_dimension_columns = ~@], showTooltips)
  /\ event' = Other("mapping")
  /\ UNCHANGED <<statVars, loadVars, ebVars, isLoading>>

\* the block dimension control is rendered while use_dimension_columns is off
SetBlockDimension(b) ==
  /\ parsedData.loaded
  /\ ~mapping.use_dimension_columns
  /\ b # mapping.block_dimension
  /\ Render(parsedData, selectedProperty, hideValue,
            [mapping EXCEPT !.block_dimension = b], showTooltips)
  /\ event' = Other("mapping")
  /\ UNCHANGED <<statVars, loadVars, ebVars, isLoading>>

\* the "z exageration" control: a number from 1 up, in steps of 1
SetZScale(k) ==
  /\ parsedData.loaded
  /\ k # mapping.zScale
  /\ Render(parsedData, selectedProperty, hideValue,
            [mapping EXCEPT !.zScale = k], showTooltips)
  /\ event' = Other("zScale")
  /\ UNCHANGED <<statVars, loadVars, ebVars, isLoading>>

\* scale-y of <instancedMesh>: the whole collection is stretched upwards
MeshScaleY == mapping.zScale

ToggleTooltips ==
  /\ Render(parsedData, selectedProperty, hideValue, mapping, ~showTooltips)
  /\ event' = Other("tooltips")
  /\ UNCHANGED <<statVars, loadVars, ebVars, isLoading>>

----------------------------------------------------------------------------
(* Pointer events on window while Boxes is mounted.                        *)

data == BoxesData(parsedData, selectedProperty, hideValue)

\* handlePointerMove, called only while the mousemove listener is installed
PointerMove(e, hit) ==
  LET overUI == isMouseOverUI(e)
      reaches == ReachesRayCast(overUI, data, showTooltips)
  IN /\ moveListener
     /\ ~reaches => hit = NoHit
     /\ hoveredBlock' =
          IF reaches THEN ResolveHit(hit, data, matrices)
          ELSE IF hoveredBlock.instanceId # NullId THEN NoHover
          ELSE hoveredBlock
     /\ event' = [NoEvent EXCEPT !.type = "move", !.at = e, !.overUI = overUI,
                                 !.rayCast = reaches, !.hit = hit]
     /\ UNCHANGED <<statVars, loadVars, ebVars, dataVars, moveListener, showCopyFeedback, matrices,
                    colorArray, copyVars, clipVars>>

\* One click: the mesh's onClick when the click hits the mesh (the canvas is
\* not under the panels), then handleClick on window.  copyBlockDataToClipboard
\* calls writeText, which throws at once (caught) or returns a promise.
Click(e, meshHit, throws) ==
  LET overUI == isMouseOverUI(e)
      writes == MeshClickWrites(hoveredBlock, meshHit)
                  \o WindowClickWrites(hoveredBlock, overUI)
  IN /\ BoxesRendered(parsedData, mapping)
     /\ meshHit => ~overUI
     /\ pendingWrites + timers + 2 <= MaxInFlight
     /\ pendingWrites' = pendingWrites + (IF throws THEN 0 ELSE Len(writes))
     /\ event' = [NoEvent EXCEPT !.type = "click", !.at = e, !.overUI = overUI,
                                 !.meshHit = meshHit, !.writes = writes,
                                 !.throws = throws]
     /\ UNCHANGED <<statVars, loadVars, ebVars, dataVars, boxVars, timers, clipVars>>

\* writeText's promise resolves: setShowCopyFeedback(true); setTimeout(..., 800)
WriteResolve ==
  /\ pendingWrites > 0
  /\ pendingWrites' = pendingWrites - 1
  /\ showCopyFeedback' = TRUE
  /\ timers' = timers + 1
  /\ event' = Other("resolved")
  /\ UNCHANGED <<statVars, loadVars, ebVars, dataVars, moveListener, hoveredBlock, matrices,
                 colorArray, clipVars>>

\* writeText's promise rejects: console.error
WriteRejectMut ==
  /\ pendingWrites > 0
  /\ pendingWrites' = pendingWrites - 1
  /\ showCopyFeedback' = TRUE
  /\ event' = Other("rejected")
  /\ UNCHANGED <<statVars, loadVars, ebVars, dataVars, moveListener, hoveredBlock, matrices,
                 colorArray, timers, clipVars>>
WriteReject ==
  /\ pendingWrites > 0
  /\ pendingWrites' = pendingWrites - 1
  /\ event' = Other("rejected")
  /\ UNCHANGED <<statVars, loadVars, ebVars, dataVars, boxVars, timers, clipVars>>

\* what the timer's callback sets the acknowledgment flag to
TimerSetsMut == showCopyFeedback
TimerSets == FALSE

\* a timer fires: setShowCopyFeedback(false)
TimerFire ==
  /\ timers > 0
  /\ timers' = timers - 1
  /\ showCopyFeedback' = TimerSets
  /\ event' = Other("timer")
  /\ UNCHANGED <<statVars, loadVars, ebVars, dataVars, moveListener, hoveredBlock, matrices,
                 colorArray, pendingWrites, clipVars>>

----------------------------------------------------------------------------
(* The controls of CrossSectionWidget (shown while Boxes is mounted).      *)

\* a change of a "Cross Section" control: CrossSectionWidget renders again,
\* its effect runs, and HelperPlane is rendered while active
ClipChange(ctrl) ==
  LET table == ArrowOf(parsedData.rows)
  IN /\ BoxesRendered(parsedData, mapping)
     /\ ctrl # controls
     /\ controls' = ctrl
     /\ clippingPlane' = ClipEffect(ctrl, data, mapping)
     /\ helper' = HelperControls(helper, ctrl,
                                 getHelperPlaneProps(ctrl, data, mapping, table))
     /\ event' = Other("clip")
     /\ UNCHANGED <<statVars, loadVars, ebVars, dataVars, boxVars, copyVars>>

SetActive == ClipChange([controls EXCEPT !.active = ~@])

SetDirection(dir) == ClipChange([controls EXCEPT !.direction = dir])

\* the slider of the chosen direction: min - 1 .. max + 1 for x and y, no
\* bounds for z
SliderRange(dir) ==
  LET st == getMinMaxFromArrow(ArrowOf(parsedData.rows), mapping[dir])
      slack == IF dir = "z" THEN ZSlack ELSE 0
  IN IF IsNum(st.min) /\ IsNum(st.max)
     THEN (st.min.n - 1 - slack)..(st.max.n + 1 + slack)
     ELSE {}

SetPosition(p) ==
  /\ p \in SliderRange(controls.direction)
  /\ ClipChange([controls EXCEPT ![controls.direction] = p])

\* the "show helper" control of HelperPlane
ToggleShowHelper ==
  /\ BoxesRendered(parsedData, mapping)
  /\ controls.active
  /\ helper.init
  /\ helper' = [helper EXCEPT !.active = ~@]
  /\ event' = Other("helper")
  /\ UNCHANGED <<statVars, loadVars, ebVars, dataVars, boxVars, copyVars, controls, clippingPlane>>

----------------------------------------------------------------------------
(* ErrorBoundary: an outer boundary around a sibling component and an inner *)
(* boundary, which is around a child component.                            *)

\* the fallback prop: omitted, or an element
NoFallback == "undefined"
Fallbacks == {NoFallback, "<div>Outer error</div>", "<div>Inner error</div>"}

\* messages of the errors the components throw
Messages == {"Test error", "Custom error message", ""}

\* state = { hasError: false, error: null }
NoError == [hasError |-> FALSE, error |-> "null"]

\* new Error(message).toString()
ErrorToString(message) ==
  IF message = "" THEN <<"Error">> ELSE <<"Error", ": ", message>>

\* getDerivedStateFromError(error)
getDerivedStateFromError(error) == [hasError |-> TRUE, error |-> error]

\* render() that renders the default error UI whatever the fallback prop
RenderBoundaryMut(state, fallback, children) ==
  IF state.hasError
  THEN [ui |-> "default",
        content |-> IF state.error # "null"
                    THEN ErrorToString(state.error) ELSE <<>>]
  ELSE [ui |-> "children", content |-> children]

\* render(): the fallback or the default error UI while hasError, else the
\* children
RenderBoundary(state, fallback, children) ==
  IF state.hasError
  THEN IF fallback # NoFallback
       THEN [ui |-> "fallback", content |-> <<fallback>>]
       ELSE [ui |-> "default",
             content |-> IF state.error # "null"
                         THEN ErrorToString(state.error) ELSE <<>>]
  ELSE [ui |-> "children", content |-> children]

\* what the two boundaries render
InnerOutput == RenderBoundary(innerEB, ebProps.inner, <<"child">>)
OuterOutput == RenderBoundary(outerEB, ebProps.outer, <<"sibling", InnerOutput>>)

\* the inner boundary and its child are rendered
InnerMounted == ~outerEB.hasError

\* The child of the inner boundary throws while it renders: the inner
\* boundary is the nearest one.
ChildThrows(message) ==
  /\ InnerMounted /\ ~innerEB.hasError
  /\ innerEB' = getDerivedStateFromError(message)
  /\ ebLog' = Append(ebLog, [by |-> "inner", error |-> message])
  /\ event' = [Other("throw") EXCEPT !.writes = <<"child", message>>]
  /\ UNCHANGED <<statVars, loadVars, dataVars, boxVars, copyVars, clipVars,
                 ebProps, outerEB>>

\* The sibling of the inner boundary throws while it renders: the outer
\* boundary is the nearest one; its children, the inner boundary among
\* them, are unmounted.
SiblingThrows(message) ==
  /\ ~outerEB.hasError
  /\ outerEB' = getDerivedStateFromError(message)
  /\ innerEB' = NoError
  /\ ebLog' = Append(ebLog, [by |-> "outer", error |-> message])
  /\ event' = [Other("throw") EXCEPT !.writes = <<"sibling", message>>]
  /\ UNCHANGED <<statVars, loadVars, dataVars, boxVars, copyVars, clipVars,
                 ebProps>>

\* the parent renders the boundaries again: their state stays
Rerender ==
  /\ event' = Other("rerender")
  /\ UNCHANGED <<statVars, loadVars, dataVars, boxVars, copyVars, clipVars,
                 ebVars>>

\* the "Reload Page" button of a default error UI on screen:
\* window.location.reload() starts the page again
ReloadPage ==
  /\ \/ OuterOutput.ui = "default"
     \/ (InnerMounted /\ InnerOutput.ui = "default")
  /\ outerEB' = NoError
  /\ innerEB' = NoError
  /\ ebLog' = <<>>
  /\ event' = Other("reload")
  /\ UNCHANGED <<statVars, loadVars, dataVars, boxVars, copyVars, clipVars,
                 ebProps>>

----------------------------------------------------------------------------
(* The statistics as a function of its inputs.                             *)

NoResult == [EmptyStats EXCEPT !.count = -1]

ComputeStats ==
  /\ statResult = NoResult
  /\ statResult' = getMinMaxFromArrow(statTable, statAttr)
  /\ UNCHANGED <<statTable, statAttr, statColors, loadVars, ebVars, dataVars, boxVars, copyVars,
                 clipVars, event>>

\* the values the colour function is asked about
ColorInputs == 0..(MaxVal + 1)

\* getColorFromArrowTable has not been called
NoColors == [val \in ColorInputs |-> [k |-> "none", hex |-> "", n |-> 0, d |-> 1]]

\* getColorFromArrowTable({table, attribute}) and the function it returns,
\* called on every value
BuildColorFn ==
  /\ statColors = NoColors
  /\ statColors' = [val \in ColorInputs |-> getColor(statTable, statAttr, val)]
  /\ UNCHANGED <<statTable, statAttr, statResult, loadVars, ebVars, dataVars, boxVars, copyVars,
                 clipVars, event>>

----------------------------------------------------------------------------
(* Specifications.                                                         *)

\* the application after App is first rendered: nothing loaded
InitSceneProps(map, props) ==
  /\ parsedData = NoData
  /\ selectedProperty = ""
  /\ hideValue = "NaN"
  /\ mapping = map
  /\ showTooltips = FALSE   \* toggle_tooltips starts off
  /\ isLoading = FALSE
  /\ moveListener = FALSE
  /\ hoveredBlock = NoHover
  /\ showCopyFeedback = FALSE
  /\ matrices = <<>>
  /\ colorArray = <<>>
  /\ pendingWrites = 0
  /\ timers = 0
  /\ controls = NoControls
  /\ helper = NoHelper
  /\ clippingPlane = NoPlane
  /\ ebProps = props
  /\ outerEB = NoError
  /\ innerEB = NoError
  /\ ebLog = <<>>
  /\ calls = <<>>
  /\ started = 0
  /\ lastFile = NoFile
  /\ givenFiles = <<>>
  /\ event = NoEvent

\* App and Scene give their ErrorBoundary no fallback
InitSceneWith(map) ==
  InitSceneProps(map, [outer |-> NoFallback, inner |-> NoFallback])

\* the "Block Model" controls as the datasets with columns x, y, z register them
InitScene == InitSceneWith(InitMapping)

InitStatsIdle ==
  /\ statTable = NoTable
  /\ statAttr = "v"
  /\ statResult = EmptyStats
  /\ statColors = NoColors

Init == InitScene /\ InitStatsIdle

Load ==
  \/ HandleFile
  \/ \E rows \in Datasets : HandleParsedData(rows)
  \/ LoadFails

Filter ==
  \/ \E p \in {"", "v"} : SelectProperty(p)
  \/ \E h \in {"NaN", "10"} : SetHideValue(h)

\* picking and click-to-copy, over datasets of the two rows of the end-to-end
\* scenario
PickDatasets == SeqsUpTo({RowA, RowB}, MaxRows)

Next ==
  \/ HandleFile
  \/ \E rows \in PickDatasets : HandleParsedData(rows)
  \/ LoadFails
  \/ Filter
  \/ ToggleTooltips
  \/ \E e \in Pointers, hit \in RayHits(Len(data)) : PointerMove(e, hit)
  \/ \E e \in Pointers, meshHit, throws \in BOOLEAN : Click(e, meshHit, throws)
  \/ WriteResolve
  \/ WriteReject
  \/ TimerFire

Spec == Init /\ [][Next]_vars

\* click-to-copy and its acknowledgment, without the row filter
NextAck ==
  \/ HandleFile
  \/ \E rows \in PickDatasets : HandleParsedData(rows)
  \/ ToggleTooltips
  \/ \E e \in Pointers, hit \in RayHits(Len(data)) : PointerMove(e, hit)
  \/ \E e \in Pointers, meshHit, throws \in BOOLEAN : Click(e, meshHit, throws)
  \/ WriteResolve
  \/ WriteReject
  \/ TimerFire

\* timers fire: the browser runs a due setTimeout callback
FairSpec == Init /\ [][NextAck]_vars /\ WF_vars(TimerFire)

\* the buffers under changes of the data and the mapping
NextRender ==
  \/ Load
  \/ Filter
  \/ \E c \in {"x", "y"} : SetCoordColumn(c)
  \/ ToggleUseDimensionColumns
  \/ \E b \in {[x |-> 5, y |-> 5, z |-> 5], [x |-> 1, y |-> 1, z |-> 1],
              [x |-> 1, y |-> 2, z |-> 3]} :
       SetBlockDimension(b)
  \/ \E k \in 1..MaxZScale : SetZScale(k)

SpecRender == Init /\ [][NextRender]_vars

\* the cross-section controls under changes of the data
ClipDatasets == SeqsUpTo({RowA, RowC}, MaxRows)

NextClip ==
  \/ HandleFile
  \/ \E rows \in ClipDatasets : HandleParsedData(rows)
  \/ SetActive
  \/ \E dir \in {"x", "y", "z"} : SetDirection(dir)
  \/ \E p \in -2..3 : SetPosition(p)
  \/ ToggleShowHelper

SpecClip == Init /\ [][NextClip]_vars

\* the row filter together with the cross section: the rows given to Boxes
\* can all be filtered away while the section is active
NextEmpty ==
  \/ HandleFile
  \/ \E rows \in ClipDatasets : HandleParsedData(rows)
  \/ Filter
  \/ SetActive
  \/ \E dir \in {"x", "y", "z"} : SetDirection(dir)

SpecEmpty == Init /\ [][NextEmpty]_vars

\* the cross section under changes of the controls, the coordinate column,
\* the row filter and the dataset
NextSync ==
  \/ HandleFile
  \/ \E rows \in PickDatasets : HandleParsedData(rows)
  \/ Filter
  \/ \E c \in {"x", "y"} : SetCoordColumn(c)
  \/ SetActive
  \/ \E dir \in {"x", "y", "z"} : SetDirection(dir)
  \/ \E p \in -1..1 : SetPosition(p)

SpecSync == Init /\ [][NextSync]_vars

\* what is dropped: no file, one file, or two files
Drops ==
  {<<>>} \cup {<<f>> : f \in Files}
    \cup {<<f, g>> : f \in {h \in Files : h.parses /\ h.fmt = "csv"},
                     g \in {h \in Files : h.parses /\ h.fmt = "csv"}}

\* loading files of the three formats; a pending loader promise settles
NextLoad ==
  \/ \E f \in Files : StartLoad(f)
  \/ \E files \in Drops : HandleDrop(files)
  \/ Settle

SpecLoad == Init /\ [][NextLoad]_vars /\ WF_vars(Settle)

\* two nested error boundaries with every choice of fallback props
InitBoundaries ==
  /\ InitStatsIdle
  /\ \E props \in [outer : Fallbacks, inner : Fallbacks] :
       InitSceneProps(InitMapping, props)

NextBoundaries ==
  \/ \E message \in Messages : ChildThrows(message)
  \/ \E message \in Messages : SiblingThrows(message)
  \/ Rerender
  \/ ReloadPage

SpecBoundaries == InitBoundaries /\ [][NextBoundaries]_vars

\* the x, y, z gate of MappingWidget, over datasets whose x column no popular
\* name matches: x starts empty and is chosen from the select control, whose
\* options are the headers and the registered value ""
InitGate == InitSceneWith(RegisterMapping(GateFields)) /\ InitStatsIdle

NextGate ==
  \/ HandleFile
  \/ \E rows \in GateDatasets : HandleParsedData(rows)
  \/ \E c \in {"", "east"} : SetCoordColumn(c)
  \/ Filter

SpecGate == InitGate /\ [][NextGate]_vars

\* getMinMaxFromArrow on every table of one column "v" and on no table
StatTables == {NoTable} \cup {[v |-> col] : col \in SeqsUpTo(Cells, MaxLen)}

InitStats ==
  /\ InitScene
  /\ statTable \in StatTables
  /\ statAttr \in {"v", "w", ""}
  /\ statResult = NoResult
  /\ statColors = NoColors

NextStats ==
  \/ ComputeStats
  \/ BuildColorFn

SpecStats == InitStats /\ [][NextStats]_vars

----------------------------------------------------------------------------
(* Claims.                                                                 *)

N == Len(data)
Shown == BoxesRendered(parsedData, mapping)

\* the offset of row i from row 0 under the axis remapping (x, z, -y)
RemappedOffset(i) ==
  <<data[i][mapping.x] - data[1][mapping.x],
    data[i][mapping.z] - data[1][mapping.z],
    -(data[i][mapping.y] - data[1][mapping.y])>>

OffsetsFromRowZero ==
  \A i \in 1..N : \A a \in 1..3 :
    matrices[i + 1].pos[a] - matrices[2].pos[a] = RemappedOffset(i)[a]

\* C1 as stated: after a rebuild from at least one row, row 0's instance is
\* at (0,0,0) and every other row's instance at its offset from row 0.
C1_RowZeroAtOrigin ==
  (Shown /\ N >= 1) => (matrices[2].pos = <<0, 0, 0>> /\ OffsetsFromRowZero)

\* C1 as amended: row 0's instance is at (-1,-1,1), since each origin is row
\* 0's coordinate + 1, and every other row's instance is at its remapped
\* offset from row 0's instance.
C1_RowZeroAtMinusOne ==
  (Shown /\ N >= 1) => (matrices[2].pos = <<-1, -1, 1>> /\ OffsetsFromRowZero)

\* rows [{x:0,y:0,z:0},{x:5,y:0,z:0}] with fixed dims (1,1,1)
C1_Witness ==
  /\ Shown
  /\ data = <<RowA, RowB>>
  /\ mapping.x = "x"
  /\ ~mapping.use_dimension_columns
  /\ mapping.block_dimension = [x |-> 1, y |-> 1, z |-> 1]
  /\ matrices[2].pos = <<-1, -1, 1>>
  /\ matrices[3].pos = <<4, -1, 1>>

\* C2: after a pointer move that got to the ray-cast, the hover state is the
\* hit row, point and index for an index in 1..N and the cleared state in
\* every other case; index 0 never resolves to a row.
C2_HoverIsReplaced ==
  (event.type = "move" /\ event.rayCast) =>
    LET k == event.hit.instanceId
    IN IF event.hit.any /\ 1 <= k /\ k <= N
       THEN /\ hoveredBlock.data = <<data[k]>>
            /\ hoveredBlock.position = event.hit.point
            /\ hoveredBlock.instanceId = k
       ELSE hoveredBlock = NoHover

C2_Witness ==
  /\ event.type = "move"
  /\ event.rayCast
  /\ event.hit.instanceId = 2
  /\ N >= 2
  /\ hoveredBlock.data = <<data[2]>>
  /\ hoveredBlock.position = event.hit.point

\* C3: while Boxes is rendered, the material gets no clipping plane when the
\* cross section is inactive and exactly one when it is active.
C3_OnePlaneIffActive ==
  Shown => Len(ClippingPlanes(clippingPlane)) = (IF controls.active THEN 1 ELSE 0)

C3_Witness ==
  /\ Shown
  /\ controls.active
  /\ Len(ClippingPlanes(clippingPlane)) = 1
  /\ event.type = "clip"

\* C4: a click with a hovered block outside the UI makes exactly one
\* clipboard write, of the hovered row; a click with no hovered block makes
\* none.
C4_ExactlyOneWrite ==
  event.type = "click" =>
    /\ (hoveredBlock.data # <<>> /\ ~event.overUI) =>
         event.writes = <<Stringify(hoveredBlock.data[1])>>
    /\ hoveredBlock.data = <<>> => event.writes = <<>>

\* C5: when a clipboard write has succeeded the acknowledgment flag is true,
\* and whenever the flag is true it becomes false again.
C5_AckSetThenCleared ==
  /\ [](event.type = "resolved" => showCopyFeedback)
  /\ (showCopyFeedback ~> ~showCopyFeedback)

C5_Witness == event.type = "resolved" /\ showCopyFeedback /\ timers > 0

\* C6: while tooltips are disabled there is no mousemove listener and the
\* hover state is the cleared one.
C6_DisabledMeansNoHover ==
  ~showTooltips => (~moveListener /\ hoveredBlock = NoHover)

\* triple i (0-based) of the colour buffer
Triple(i) == SubSeq(colorArray, 3 * i + 1, 3 * i + 3)

\* the colour function on the numeric value of the selected property of row
\* i (1-based) of the rows given to Boxes
ColorOfRow(i) ==
  getColor(ArrowOf(parsedData.rows), selectedProperty,
           IF selectedProperty = "" THEN 0 ELSE data[i][selectedProperty])

\* C7: while Boxes is rendered, the transform buffer and the colour buffer
\* both have N + 1 slots and slot i of each is built from row i - 1 of the
\* current data, mapping and property.
C7_BuffersFromSameSnapshot ==
  Shown =>
    /\ Len(matrices) = N + 1
    /\ Len(colorArray) = 3 * (N + 1)
    /\ \A i \in 1..N :
         /\ matrices[i + 1].set
         /\ matrices[i + 1].pos = InstancePosition(data, mapping, i)
         /\ matrices[i + 1].scale = InstanceScale(data, mapping, i)
         /\ Triple(i) = ColorToArray(ColorOfRow(i))

C7_Witness ==
  /\ Shown
  /\ N = 1
  /\ Len(parsedData.rows) = 2
  /\ mapping.x = "y"
  /\ ~mapping.use_dimension_columns
  /\ Len(matrices) = 2
  /\ Len(colorArray) = 6

\* C8: while the helper plane is shown, its width and height are the extents
\* of the other two coordinate columns.
C8_HelperSizedByOtherAxes ==
  HelperShown(parsedData, mapping, controls, helper) =>
    LET table == ArrowOf(parsedData.rows)
        ex == Extent(table, mapping.x)
        ey == Extent(table, mapping.y)
        ez == Extent(table, mapping.z)
    IN CASE controls.direction = "x" -> helper.width = ey /\ helper.height = ez
         [] controls.direction = "y" -> helper.width = ex /\ helper.height = ez
         [] OTHER -> helper.width = ex /\ helper.height = ey

\* the value is the number 0
IsZeroValue(a) == a.k \in {"num", "sqrt"} /\ a.n = 0

\* C9: for an absent attribute or a column of length zero the result has
\* min, max and range null or undefined and count, sum, mean, median and
\* stdDev 0.
C9_EmptyGivesZeros ==
  (/\ statResult # NoResult
   /\ \/ statTable = NoTable
      \/ statAttr \notin DOMAIN statTable
      \/ Len(statTable[statAttr]) = 0) =>
    /\ IsNil(statResult.min) /\ IsNil(statResult.max) /\ IsNil(statResult.range)
    /\ statResult.count = 0
    /\ IsZeroValue(statResult.sum)
    /\ IsZeroValue(statResult.mean)
    /\ IsZeroValue(statResult.median)
    /\ IsZeroValue(statResult.stdDev)

\* the non-null cells of a column
NonNull(column) == {i \in 1..Len(column) : column[i].valid}

\* C10: for a column of at least one row, count is the number of non-null
\* values and mean is sum divided by that count.
C10_CountsNonNull ==
  (/\ statResult # NoResult
   /\ statTable # NoTable
   /\ statAttr \in DOMAIN statTable
   /\ Len(statTable[statAttr]) >= 1) =>
    /\ statResult.count = Cardinality(NonNull(statTable[statAttr]))
    /\ statResult.mean =
         Div(statResult.sum.n, Cardinality(NonNull(statTable[statAttr])))

\* C11: the colour function is the constant #FDE725 when the attribute is
\* empty or the statistics have no min or max, and otherwise the scale over
\* [min, max]; #FDE725 is not the instance-0 colour #CCCCCC.
C11_FallbackOrScale ==
  /\ DEFAULT_COLOR # defaultColor
  /\ statColors # NoColors =>
       LET st == getMinMaxFromArrow(statTable, statAttr)
       IN \A val \in ColorInputs :
            IF statAttr = "" \/ IsNil(st.min) \/ IsNil(st.max)
            THEN statColors[val].k = "hex" /\ statColors[val].hex = "#FDE725"
            ELSE /\ statColors[val].k = "scale"
                 /\ statColors[val].d = st.max.n - st.min.n
                 /\ statColors[val].n =
                      (IF val < st.min.n THEN 0
                       ELSE IF val > st.max.n THEN st.max.n - st.min.n
                       ELSE val - st.min.n)

\* a column of length zero, coloured by the fallback
C11_Witness ==
  /\ statColors # NoColors
  /\ statAttr = "v"
  /\ statTable # NoTable
  /\ statTable.v = <<>>
  /\ \A val \in ColorInputs : statColors[val] = DEFAULT_COLOR

\* C12: while Boxes is rendered with N rows, the colour buffer is N + 1
\* packed RGB triples: triple 0 is the gray #CCCCCC and triple i is the
\* colour function on the selected property's value in row i - 1.
C12_PackedTriples ==
  Shown =>
    /\ Len(colorArray) = 3 * (N + 1)
    /\ Triple(0) = ColorToArray(defaultColor)
    /\ \A i \in 1..N : Triple(i) = ColorToArray(ColorOfRow(i))
    /\ \A j \in 1..Len(colorArray) :
         colorArray[j].channel = <<"r", "g", "b">>[((j - 1) % 3) + 1]

C12_Witness ==
  /\ Shown
  /\ N = 2
  /\ selectedProperty = "v"
  /\ Len(colorArray) = 9
  /\ Triple(0) = ColorToArray(defaultColor)
  /\ Triple(1) # Triple(2)
  /\ Triple(2)[1].of.k = "scale"

\* every coordinate column of the mapping is chosen
AllChosen == mapping.x # "" /\ mapping.y # "" /\ mapping.z # ""

\* C13: while one of x, y, z is empty no instanced collection exists, and
\* while a dataset is loaded and all three are non-empty it exists with its
\* N + 1 slots and a transform for every row.
C13_GateOnXYZ ==
  /\ ~AllChosen => (matrices = <<>> /\ colorArray = <<>>)
  /\ (parsedData.loaded /\ AllChosen) =>
       (Len(matrices) = N + 1 /\ \A i \in 1..N : matrices[i + 1].set)

\* x was empty, the user chose the column, and the instances are built
C13_Witness ==
  /\ event.type = "mapping"
  /\ mapping.x = "east"
  /\ N = 2
  /\ Len(matrices) = 3
  /\ matrices[3].pos = <<4, -1, 1>>

\* C14: while Boxes is given no rows, no transform is written, no clipping
\* plane is supplied and no helper plane is rendered.
C14_EmptyProducesNothing ==
  (Shown /\ N = 0) =>
    /\ \A k \in 1..Len(matrices) : ~matrices[k].set
    /\ ClippingPlanes(clippingPlane) = <<>>
    /\ ~HelperShown(parsedData, mapping, controls, helper)

\* C15: a clipboard write that fails, by a rejected promise or by a throw of
\* writeText, changes nothing: the acknowledgment flag, the hover state, the
\* timers and every other piece of state stay as they were.
C15_FailureChangesNothing ==
  [][(event'.type = "rejected" \/ (event'.type = "click" /\ event'.throws)) =>
       UNCHANGED <<dataVars, boxVars, timers, clipVars>>]_vars

\* a write of a hovered row was rejected and the flag is not set
C15_Witness ==
  /\ event.type = "rejected"
  /\ hoveredBlock.data # <<>>
  /\ ~showCopyFeedback
  /\ timers = 0

\* the one file given so far is of format fmt and its content parses to rows
OnlyFile(fmt) ==
  /\ started = 1
  /\ lastFile.fmt = fmt
  /\ lastFile.parses /\ lastFile.hasCsv /\ lastFile.rows # <<>>

\* handleFile has ended with the file's rows as the dataset
LoadedLastFile ==
  calls = <<>> /\ parsedData = Loaded(lastFile.rows) /\ ~isLoading

\* C16: a CSV, ZIP or Arrow file whose content parses is in the end the
\* current dataset, with the loading flag false (unless another file is
\* given meanwhile).
C16_EveryFormatLoads ==
  \A fmt \in Formats : OnlyFile(fmt) ~> (LoadedLastFile \/ started > 1)

\* what a boundary in the error state shows: its fallback when it has one,
\* else the default error UI with the error's message
ShowsError(output, state, fallback) ==
  IF fallback # NoFallback
  THEN output = [ui |-> "fallback", content |-> <<fallback>>]
  ELSE /\ output.ui = "default"
       /\ output.content = ErrorToString(state.error)

\* the last line the boundaries logged
LastLogged == ebLog[Len(ebLog)]

OriginOf(col) == data[1][col] + 1

\* C18: after a rebuild from N >= 1 rows, for every row i (0-based) the
\* instance at index i + 1 is written with position (x_i - origin_x,
\* z_i - origin_z, -(y_i - origin_y)), each origin being row 0's coordinate
\* + 1; the instances follow the order of the rows, all N of them, and
\* instance 0 is not written.
C18_PositionsInRowOrder ==
  (Shown /\ N >= 1) =>
    /\ ~matrices[1].set
    /\ Len(matrices) = N + 1
    /\ \A i \in 0..(N - 1) :
         /\ matrices[i + 2].set
         /\ matrices[i + 2].pos =
              <<data[i + 1][mapping.x] - OriginOf(mapping.x),
                data[i + 1][mapping.z] - OriginOf(mapping.z),
                -(data[i + 1][mapping.y] - OriginOf(mapping.y))>>

\* rows (0,0,0) and (1,2,0): origins (1,1,1), instance 1 at (-1,-1,1) and
\* instance 2 at (0,-1,-1), instance 0 left unwritten
C18_Witness ==
  /\ Shown
  /\ data = <<RowA, RowC>>
  /\ mapping.x = "x"
  /\ ~matrices[1].set
  /\ matrices[2].pos = <<-1, -1, 1>>
  /\ matrices[3].pos = <<0, -1, -1>>

\* C19: every row's instance has scale (dim_x, dim_z, dim_y) of the row's
\* dimension columns while use_dimension_columns is on and (block_dimension.x,
\* block_dimension.z, block_dimension.y) while it is off; z_scale is the
\* y scale of the whole mesh and a change of it changes no instance.
C19_ScaleReordered ==
  /\ [](Shown =>
         /\ MeshScaleY = mapping.zScale
         /\ \A i \in 1..N :
              matrices[i + 1].scale =
                IF mapping.use_dimension_columns
                THEN <<data[i][mapping.dim_x], data[i][mapping.dim_z],
                       data[i][mapping.dim_y]>>
                ELSE <<mapping.block_dimension.x, mapping.block_dimension.z,
                       mapping.block_dimension.y>>)
  /\ [][event'.type = "zScale" => matrices' = matrices]_vars

\* z exageration 2 was just chosen over a row with dimension columns 2, 3, 4
C19_Witness ==
  /\ Shown
  /\ event.type = "zScale"
  /\ mapping.zScale = 2
  /\ mapping.use_dimension_columns
  /\ N >= 1
  /\ matrices[2].scale = <<2, 4, 3>>

\* the pointer of the last event is inside the control panel's or the top
\* toolbar's rectangle
InsideUI ==
  \/ /\ event.at.clientX \in PanelRect.left..PanelRect.right
     /\ event.at.clientY \in PanelRect.top..PanelRect.bottom
  \/ /\ event.at.clientX \in TopRect.left..TopRect.right
     /\ event.at.clientY \in TopRect.top..TopRect.bottom

\* C20: a pointer move handled with the pointer inside the control panel or
\* the top toolbar does no ray-cast and leaves the hover state cleared,
\* whatever it was before; a click there makes the window click handler copy
\* nothing.
C20_UIRegionExcluded ==
  /\ (event.type = "move" /\ InsideUI) =>
       (~event.rayCast /\ hoveredBlock = NoHover)
  /\ (event.type = "click" /\ InsideUI) => event.writes = <<>>

\* a row was hovered, then the pointer moved into the top toolbar
C20_Witness ==
  /\ event.type = "move"
  /\ event.at = [clientX |-> 1, clientY |-> 0]
  /\ hoveredBlock = NoHover
  /\ N >= 1 /\ showTooltips

\* C21: while the clear of the latest successful copy is still to come (its
\* 800 ms have not passed), the acknowledgment flag is true: a clear set up
\* by an earlier copy does not take it away.
C21_NoStaleClear ==
  timers > 0 => showCopyFeedback

\* row 0's coordinate in the column chosen for an axis (0 without rows)
StartValue(axis) == IF N = 0 THEN 0 ELSE data[1][mapping[axis]]

\* a normal component: e, or 0.5 when e is 0
ComponentOf(e) == IF e = 0 THEN [k |-> "num", n |-> 1, d |-> 2]
                  ELSE [k |-> "num", n |-> e, d |-> 1]
ZeroComponent == [k |-> "num", n |-> 0, d |-> 1]

\* the plane of the current axis, slider position and start value
PlaneFromControls ==
  CASE controls.direction = "x" ->
         [x |-> ComponentOf(StartValue("x") - controls.x + 1),
          y |-> ZeroComponent, z |-> ZeroComponent, w |-> 1]
    [] controls.direction = "y" ->
         [x |-> ZeroComponent, y |-> ZeroComponent,
          z |-> ComponentOf(controls.y - StartValue("y") - 1), w |-> 1]
    [] controls.direction = "z" ->
         [x |-> ZeroComponent,
          y |-> ComponentOf(controls.z - StartValue("z") - 1),
          z |-> ZeroComponent, w |-> 1]

\* C22: the plane produced by a change of a cross-section control while the
\* section is active has constant 1 and one non-zero normal component:
\* x = start_x - slider_x + 1 for axis X, z = slider_y - start_y - 1 for axis
\* Y, y = slider_z - start_z - 1 for axis Z, and 0.5 in place of 0.
C22_PlaneOfAxis ==
  (event.type = "clip" /\ controls.active) =>
    /\ clippingPlane = PlaneFromControls
    /\ \E c \in {"x", "y", "z"} :
         /\ clippingPlane[c] # ZeroComponent
         /\ \A o \in {"x", "y", "z"} \ {c} : clippingPlane[o] = ZeroComponent

\* axis X with start_x = slider_x - 1: the plane is (0.5, 0, 0, 1)
C22_Witness ==
  /\ event.type = "clip"
  /\ controls.active
  /\ controls.direction = "x"
  /\ N >= 1
  /\ controls.x = StartValue("x") + 1
  /\ clippingPlane.x = [k |-> "num", n |-> 1, d |-> 2]

\* the props of the helper plane's mesh in the current render
HelperProps ==
  getHelperPlaneProps(controls, data, mapping, ArrowOf(parsedData.rows))

\* the rendered coordinate, before the axes are remapped, of a block whose
\* data coordinate on the axis is the slider's value
SliderOffset(axis) == controls[axis] - (StartValue(axis) + 1)

\* C23: while the helper plane is shown it sits at the slider's offset on the
\* render axis of the clipping axis (X: x = slider - origin_x; Y: depth =
\* -(slider - origin_y); Z: up = slider - origin_z), with 0 on the other two
\* axes, and is turned to face along the clipping axis.
C23_HelperAtSlider ==
  HelperShown(parsedData, mapping, controls, helper) =>
    CASE controls.direction = "x" ->
           /\ HelperProps.position = <<SliderOffset("x"), 0, 0>>
           /\ HelperProps.rotation = <<"0", "PI/2", "0">>
      [] controls.direction = "y" ->
           /\ HelperProps.position = <<0, 0, -SliderOffset("y")>>
           /\ "rotation" \notin DOMAIN HelperProps
      [] controls.direction = "z" ->
           /\ HelperProps.position = <<0, SliderOffset("z"), 0>>
           /\ HelperProps.rotation = <<"PI/2", "0", "0">>

\* the same with the Z axis left out: holds
C23_HelperAtSliderXY ==
  (HelperShown(parsedData, mapping, controls, helper) /\ controls.direction # "z")
    => C23_HelperAtSlider

\* the position of the slider of axis dir is within [min - 1, max + 1] of
\* the coordinate column of the current dataset (coordinates are integers)
WithinColumn(dir) ==
  LET st == getMinMaxFromArrow(ArrowOf(parsedData.rows), mapping[dir])
  IN /\ IsNum(st.min) /\ IsNum(st.max)
     /\ controls[dir] >= st.min.n - 1
     /\ controls[dir] <= st.max.n + 1

\* C24: while the cross-section controls are shown, the X and the Y position
\* are within [floor(min) - 1, ceil(max) + 1] of their coordinate columns.
C24_SlidersWithinBounds ==
  (Shown /\ controls.init) => (WithinColumn("x") /\ WithinColumn("y"))

\* the helper plane's coordinate on the render axis of the clipping axis
HelperCoordinate ==
  CASE controls.direction = "x" -> HelperProps.position[1]
    [] controls.direction = "y" -> HelperProps.position[3]
    [] controls.direction = "z" -> HelperProps.position[2]

\* the plane's component on the render axis of the clipping axis
PlaneComponent ==
  CASE controls.direction = "x" -> clippingPlane.x
    [] controls.direction = "y" -> clippingPlane.z
    [] controls.direction = "z" -> clippingPlane.y

\* C25: while the section is active, the plane the material gets is the one
\* of the current axis, the current slider position and row 0 of the current
\* rows, and its component is minus the helper plane's coordinate (0.5 when
\* that is 0).
C25_PlaneFollowsData ==
  (Shown /\ controls.active) =>
    /\ clippingPlane = PlaneFromControls
    /\ PlaneComponent = ComponentOf(-HelperCoordinate)

\* what is rendered for the helper plane in the current render
HelperOutput == WidgetOutput(controls, helper, HelperProps)

\* C26: while the cross-section widget is rendered, a helper mesh is rendered
\* exactly if the section is active and "show helper" is on; the mesh has the
\* position and the rotation it is given, and [0,0,0] for each of the two
\* that it is not given.
C26_HelperIffActiveAndShown ==
  Shown =>
    /\ (HelperOutput # NoMesh) <=> (controls.active /\ helper.active)
    /\ HelperOutput # NoMesh =>
         /\ HelperOutput.position = HelperProps.position
         /\ HelperOutput.rotation =
              IF controls.direction = "y" THEN <<"0", "0", "0">>
              ELSE HelperProps.rotation
    /\ helper.active =>
         LET bare == HelperPlane(helper, [width |-> 0, height |-> 0])
         IN bare.position = <<0, 0, 0>> /\ bare.rotation = <<"0", "0", "0">>

\* section active in direction y (no rotation given) with the helper shown,
\* and the helper switched off while the section is active
C26_Witness ==
  /\ Shown
  /\ controls.active /\ controls.direction = "y"
  /\ helper.active
  /\ HelperOutput.rotation = <<"0", "0", "0">>
  /\ HelperOutput.position[3] # 0

\* the column the statistics were computed of, when every cell of it holds
\* a number
NumericColumn ==
  IF statTable # NoTable /\ statAttr \in DOMAIN statTable
     /\ \A i \in 1..Len(statTable[statAttr]) : statTable[statAttr][i].valid
  THEN toArray(statTable[statAttr]) ELSE <<>>

\* the k-th smallest (k from 1) of the values of a, by rank
OrderStatistic(a, k) ==
  CHOOSE v \in {a[i] : i \in 1..Len(a)} :
    /\ Cardinality({i \in 1..Len(a) : a[i] < v}) < k
    /\ Cardinality({i \in 1..Len(a) : a[i] <= v}) >= k

\* C27: for a non-empty numeric column the median is the central order
\* statistic when the length is odd and half the sum of the two central
\* ones when it is even, whatever the order of the values; computing the
\* statistics leaves the column as it was.
C27_MedianOfSorted ==
  /\ []((statResult # NoResult /\ NumericColumn # <<>>) =>
         LET a == NumericColumn
             n == Len(a)
         IN statResult.median =
              IF n % 2 = 1
              THEN [k |-> "num", n |-> OrderStatistic(a, (n + 1) \div 2), d |-> 1]
              ELSE [k |-> "num",
                    n |-> OrderStatistic(a, n \div 2)
                            + OrderStatistic(a, n \div 2 + 1),
                    d |-> 2])
  /\ [][statTable' = statTable]_vars

\* the column [2, 0, 1], not sorted, has median 1
C27_Witness ==
  /\ statResult # NoResult
  /\ NumericColumn = <<2, 0, 1>>
  /\ statResult.median = [k |-> "num", n |-> 1, d |-> 1]

\* C28: a hover state that is not the cleared one has an instance index k
\* with 1 <= k <= N and holds row k - 1 of the rows now given to Boxes.
C28_HoverRowIsCurrent ==
  (Shown /\ hoveredBlock.instanceId # NullId) =>
    /\ hoveredBlock.instanceId \in 1..N
    /\ hoveredBlock.data = <<data[hoveredBlock.instanceId]>>

\* C29: while a load started by handleFile is in progress (a loader's
\* promise is pending, the CSV parse of a ZIP's entry included) the loading
\* flag is true, and every load leaves it false in the end.
C29_LoadingWhileInProgress ==
  /\ [](calls # <<>> => isLoading)
  /\ [](isLoading ~> ~isLoading)

\* the part of C29 about a single file that is not a ZIP: holds
C29_SingleLoadOtherThanZip ==
  [](( /\ started = 1 /\ lastFile.fmt # "zip" /\ calls # <<>>) => isLoading)

\* every load leaves the flag false in the end: holds
C29_FlagFalseInTheEnd ==
  isLoading ~> ~isLoading

\* file i given to handleFile is a CSV or a ZIP with a .csv whose content
\* parses to at least one row
ParsesToRows(i) ==
  /\ givenFiles[i].fmt \in {"csv", "zip"}
  /\ givenFiles[i].parses /\ givenFiles[i].hasCsv
  /\ givenFiles[i].rows # <<>>

\* C30: once two loads, both of files that parse, have completed, the
\* dataset is the one of the file given last; a drop of more than one file
\* starts no load and changes neither the dataset nor the loading flag.
C30_LastStartedWins ==
  /\ []((Len(givenFiles) = 2 /\ calls = <<>> /\ ParsesToRows(1) /\ ParsesToRows(2))
          => parsedData = Loaded(givenFiles[2].rows))
  /\ [][event'.type = "drop" =>
          UNCHANGED <<calls, started, givenFiles, parsedData, isLoading>>]_vars

\* the part of C30 about drops: holds
C30_DropOfManyStartsNothing ==
  [][event'.type = "drop" =>
       UNCHANGED <<calls, started, givenFiles, parsedData, isLoading>>]_vars

====
